---- MODULE Spec2Model ----
(***************************************************************************)
(* Model of save_transcripts_to_files, the incremental YouTube transcript  *)
(* downloader of llama-index/Youtube-Llama-Index.ipynb.                    *)
(*                                                                         *)
(* The playlist-listing service, the transcript provider and the output    *)
(* directory are the environment; one run of the function is a sequence of *)
(* steps, one per interaction with the environment (a page request, the    *)
(* sort and directory creation, one loop iteration).  Runs repeat, and the *)
(* playlist may gain videos between runs.                                  *)
(***************************************************************************)
EXTENDS Integers, Sequences, FiniteSets, TLC

\* ---------------------------------------------------------------- bounds
\* videos a playlist holds at most
MaxVideos == 3
\* items the listing service returns per page: maxResults=50 of
\* playlistItems().list, scaled down to the playlists of the model
maxResults == 2
\* characters of a title, where every title is enumerated
MaxLen == 3

\* ------------------------------------------------------------ characters
\* str.isalnum / str.isspace, on the characters the model uses; any other
\* character (":", "(", ")", ",", "!") is neither
Letters == {"A", "C", "E", "S", "T", "a", "b", "c", "e", "h", "i", "k", "l",
            "n", "r", "s", "t", "u", "y"}
Digits == {"1", "2", "6"}
Whitespace == {" ", "\t"}

isalnum(c) == c \in Letters \cup Digits
isspace(c) == c \in Whitespace

\* s.rstrip(): drop the trailing whitespace characters
RECURSIVE rstrip(_)
rstrip(s) ==
  IF s = <<>> THEN <<>>
  ELSE IF isspace(s[Len(s)]) THEN rstrip(SubSeq(s, 1, Len(s) - 1))
  ELSE s

\* "".join([c for c in video_title if c.isalnum() or c.isspace()])
RECURSIVE join_kept(_)
join_kept(t) ==
  IF t = <<>> THEN <<>>
  ELSE IF isalnum(Head(t)) \/ isspace(Head(t))
       THEN <<Head(t)>> \o join_kept(Tail(t))
       ELSE join_kept(Tail(t))

\* a mutant of safe_title: strip() for rstrip()
RECURSIVE lstrip(_)
lstrip(s) ==
  IF s = <<>> THEN <<>>
  ELSE IF isspace(Head(s)) THEN lstrip(Tail(s))
  ELSE s

safe_title_strip(video_title) == lstrip(rstrip(join_kept(video_title)))

safe_title(video_title) == rstrip(join_kept(video_title))

\* ------------------------------------------------------------- the inputs
\* titles of the playlist's videos: the first two sanitize to the same key
Titles == { <<"a", ":", " ">>, <<"a">>, <<"b", " ", "1", "!">> }
Keys == { safe_title(t) : t \in Titles }
\* publishedAt values, ordered as the ISO-8601 strings are: two of them give
\* both orders and ties
Dates == {1, 2}
\* a date after them, for a video the playlist gains later
LaterDate == (CHOOSE d \in Dates : \A e \in Dates : e <= d) + 1

\* playlists in listing order; the video id is the position in the listing
Playlists(n) ==
  { [i \in 1..n |-> [id |-> i, title |-> tt[i], date |-> dd[i]]] :
      tt \in [1..n -> Titles], dd \in [1..n -> Dates] }

VARIABLES
  playlist,         \* the listing service's playlist: Seq of [id, title, date]
  dirExists,        \* os.path.exists(output_dir)
  files,            \* output_dir: key |-> content ("full", "partial")
  pc,               \* position of the run
  videos,           \* the local list videos
  next_page_token,  \* 0 is None, else the offset the token stands for
  idx,              \* position of the for loop in videos (1-based)
  calls,            \* this run's get_transcript calls: Seq of video id
  checked,          \* this run's os.path.exists(filename) checks: Seq of key
  opened,           \* this run's open(filename, "w"): Seq of [id, key]
  output,           \* this run's console lines
  files0,           \* files when the run started
  dirExists0,       \* dirExists when the run started
  prev,             \* how the previous run on this same playlist ended:
                    \* "none", "clean", "errors" (it printed some), "aborted"
  raised,           \* the error the call raised to its caller, "none" if none
  lost              \* ids of the videos whose transcript failed, in a run
                    \* before this one, with no file written for them while
                    \* the file of a newer video was there

vars == <<playlist, dirExists, files, pc, videos, next_page_token, idx,
          calls, checked, opened, output, files0, dirExists0, prev, raised,
          lost>>

Min(a, b) == IF a < b THEN a ELSE b

\* a mutant of InsertDesc: sorted ascending and then reversed, which turns
\* the videos of one date around
RECURSIVE InsertDesc_ties(_, _)
InsertDesc_ties(s, v) ==
  IF s = <<>> THEN <<v>>
  ELSE IF Head(s).date > v.date
       THEN <<Head(s)>> \o InsertDesc_ties(Tail(s), v)
       ELSE <<v>> \o s

\* videos.sort(key=lambda x: x[2], reverse=True): stable, newest first
RECURSIVE InsertDesc(_, _)
InsertDesc(s, v) ==
  IF s = <<>> THEN <<v>>
  ELSE IF Head(s).date >= v.date THEN <<Head(s)>> \o InsertDesc(Tail(s), v)
  ELSE <<v>> \o s

\* a mutant of SortDesc: reverse=True is left out, oldest first
RECURSIVE InsertAsc(_, _)
InsertAsc(s, v) ==
  IF s = <<>> THEN <<v>>
  ELSE IF Head(s).date <= v.date THEN <<Head(s)>> \o InsertAsc(Tail(s), v)
  ELSE <<v>> \o s

RECURSIVE SortDesc_oldestfirst(_)
SortDesc_oldestfirst(s) ==
  IF s = <<>> THEN <<>>
  ELSE InsertAsc(SortDesc_oldestfirst(SubSeq(s, 1, Len(s) - 1)), s[Len(s)])

RECURSIVE SortDesc(_)
SortDesc(s) ==
  IF s = <<>> THEN <<>>
  ELSE InsertDesc(SortDesc(SubSeq(s, 1, Len(s) - 1)), s[Len(s)])

ErrorLines == SelectSeq(output, LAMBDA l : l.kind = "error")

Resting == pc \in {"idle", "done", "failed", "crashed"}

\* lost, with the videos the run that has just ended adds to it: those it
\* printed an error for without opening a file, when the file of a video
\* published later is in the directory
LostAfterRun ==
  lost \cup
    { v \in { ErrorLines[l].id : l \in DOMAIN ErrorLines } :
        /\ \A e \in DOMAIN opened : opened[e].id # v
        /\ \E n \in DOMAIN playlist :
             /\ playlist[n].date > playlist[v].date
             /\ safe_title(playlist[n].title) \in DOMAIN files }

Init ==
  /\ \E n \in 0..MaxVideos : playlist \in Playlists(n)
  /\ dirExists \in BOOLEAN
  /\ \E ks \in SUBSET Keys :
       files = [k \in (IF dirExists THEN ks ELSE {}) |-> "full"]
  /\ pc = "idle"
  /\ videos = <<>>
  /\ next_page_token = 0
  /\ idx = 0
  /\ calls = <<>>
  /\ checked = <<>>
  /\ opened = <<>>
  /\ output = <<>>
  /\ files0 = files
  /\ dirExists0 = dirExists
  /\ prev = "none"
  /\ raised = "none"
  /\ lost = {}

\* save_transcripts_to_files(api_key, playlist_id, output_dir) is called
StartRun ==
  /\ Resting
  /\ pc' = "list"
  /\ videos' = <<>>
  /\ next_page_token' = 0
  /\ idx' = 0
  /\ calls' = <<>>
  /\ checked' = <<>>
  /\ opened' = <<>>
  /\ output' = <<>>
  /\ files0' = files
  /\ dirExists0' = dirExists
  /\ prev' = IF pc = "idle" THEN "none"
             ELSE IF pc # "done" THEN "aborted"
             ELSE IF ErrorLines = <<>> THEN "clean"
             ELSE "errors"
  /\ raised' = "none"
  /\ lost' = LostAfterRun
  /\ UNCHANGED <<playlist, dirExists, files>>

\* a mutant of ListPage: nextPageToken is ignored, the first page is all
ListPage_firstonly ==
  /\ pc = "list"
  /\ videos' = videos \o SubSeq(playlist, 1, Min(Len(playlist), maxResults))
  /\ next_page_token' = 0
  /\ pc' = "sort"
  /\ UNCHANGED <<playlist, dirExists, files, idx, calls, checked, opened,
                 output, files0, dirExists0, prev, raised>>
  /\ UNCHANGED lost

\* one request.execute() that succeeds: the service returns the next
\* maxResults items (fewer on the last page) and a nextPageToken when more
\* remain
ListPage ==
  /\ pc = "list"
  /\ LET rest == Len(playlist) - next_page_token
         k == Min(rest, maxResults) IN
       /\ videos' = videos \o SubSeq(playlist, next_page_token + 1,
                                     next_page_token + k)
       /\ IF k < rest
          THEN /\ next_page_token' = next_page_token + k
               /\ pc' = "list"
          ELSE /\ next_page_token' = 0
               /\ pc' = "sort"
  /\ UNCHANGED <<playlist, dirExists, files, idx, calls, checked, opened,
                 output, files0, dirExists0, prev, raised>>
  /\ UNCHANGED lost

\* a mutant of ListFail: the error is caught and the run goes on with the
\* pages it has
ListFail_swallow ==
  /\ pc = "list"
  /\ pc' = "sort"
  /\ raised' = "listing"
  /\ UNCHANGED <<playlist, dirExists, files, videos, next_page_token, idx,
                 calls, checked, opened, output, files0, dirExists0, prev>>
  /\ UNCHANGED lost

\* request.execute() raises: nothing catches it, the call ends with the error
ListFail ==
  /\ pc = "list"
  /\ pc' = "failed"
  /\ raised' = "listing"
  /\ UNCHANGED <<playlist, dirExists, files, videos, next_page_token, idx,
                 calls, checked, opened, output, files0, dirExists0, prev>>
  /\ UNCHANGED lost

\* a mutant of SortAndMakeDir: the directory is made only for a video
SortAndMakeDir_lazy ==
  /\ pc = "sort"
  /\ videos' = SortDesc(videos)
  /\ dirExists' = (dirExists \/ videos # <<>>)
  /\ idx' = 1
  /\ pc' = "loop"
  /\ UNCHANGED <<playlist, files, next_page_token, calls, checked, opened,
                 output, files0, dirExists0, prev, raised>>
  /\ UNCHANGED lost

\* videos.sort(...); os.makedirs(output_dir) when it is missing
SortAndMakeDir ==
  /\ pc = "sort"
  /\ videos' = SortDesc(videos)
  /\ dirExists' = TRUE
  /\ idx' = 1
  /\ pc' = "loop"
  /\ UNCHANGED <<playlist, files, next_page_token, calls, checked, opened,
                 output, files0, dirExists0, prev, raised>>
  /\ UNCHANGED lost

InLoop == pc = "loop" /\ idx <= Len(videos)
cur == videos[idx]
\* a mutant of filename: the title as it is
filename_raw == cur.title

filename == safe_title(cur.title)

\* a mutant of StopAtExisting: continue for break
StopAtExisting_continue ==
  /\ InLoop
  /\ filename \in DOMAIN files
  /\ checked' = Append(checked, filename)
  /\ idx' = idx + 1
  /\ UNCHANGED <<playlist, dirExists, files, videos, next_page_token, pc,
                 calls, opened, output, files0, dirExists0, prev, raised>>
  /\ UNCHANGED lost

\* os.path.exists(filename): break
StopAtExisting ==
  /\ InLoop
  /\ filename \in DOMAIN files
  /\ checked' = Append(checked, filename)
  /\ pc' = "done"
  /\ UNCHANGED <<playlist, dirExists, files, videos, next_page_token, idx,
                 calls, opened, output, files0, dirExists0, prev,
                 raised>>
  /\ UNCHANGED lost

\* a mutant of SaveTranscript: the file is opened before the existence check
SaveTranscript_overwrite ==
  /\ InLoop
  /\ checked' = Append(checked, filename)
  /\ calls' = Append(calls, cur.id)
  /\ opened' = Append(opened, [id |-> cur.id, key |-> filename])
  /\ files' = [k \in DOMAIN files \cup {filename} |->
                 IF k = filename THEN "full" ELSE files[k]]
  /\ output' = Append(output, [kind |-> "saved", id |-> cur.id,
                               text |-> filename])
  /\ idx' = idx + 1
  /\ UNCHANGED <<playlist, dirExists, videos, next_page_token, pc, files0,
                 dirExists0, prev, raised>>
  /\ UNCHANGED lost

\* a mutant of SaveTranscript: a file that is there but truncated is fetched
\* and written again
SaveTranscript_repair ==
  /\ InLoop
  /\ IF filename \in DOMAIN files THEN files[filename] = "partial" ELSE TRUE
  /\ checked' = Append(checked, filename)
  /\ calls' = Append(calls, cur.id)
  /\ opened' = Append(opened, [id |-> cur.id, key |-> filename])
  /\ files' = [k \in DOMAIN files \cup {filename} |->
                 IF k = filename THEN "full" ELSE files[k]]
  /\ output' = Append(output, [kind |-> "saved", id |-> cur.id,
                               text |-> filename])
  /\ idx' = idx + 1
  /\ UNCHANGED <<playlist, dirExists, videos, next_page_token, pc, files0,
                 dirExists0, prev, raised>>
  /\ UNCHANGED lost

\* a mutant of SaveTranscript: the file is written outside output_dir
SaveTranscript_elsewhere ==
  /\ InLoop
  /\ filename \notin DOMAIN files
  /\ checked' = Append(checked, filename)
  /\ calls' = Append(calls, cur.id)
  /\ opened' = Append(opened, [id |-> cur.id, key |-> filename])
  /\ output' = Append(output, [kind |-> "saved", id |-> cur.id,
                               text |-> filename])
  /\ idx' = idx + 1
  /\ UNCHANGED <<playlist, dirExists, files, videos, next_page_token, pc,
                 files0, dirExists0, prev, raised>>
  /\ UNCHANGED lost

\* get_transcript succeeds, the file is written, "Transcript saved to" printed
SaveTranscript ==
  /\ InLoop
  /\ filename \notin DOMAIN files
  /\ checked' = Append(checked, filename)
  /\ calls' = Append(calls, cur.id)
  /\ opened' = Append(opened, [id |-> cur.id, key |-> filename])
  /\ files' = [k \in DOMAIN files \cup {filename} |->
                 IF k = filename THEN "full" ELSE files[k]]
  /\ output' = Append(output, [kind |-> "saved", id |-> cur.id,
                               text |-> filename])
  /\ idx' = idx + 1
  /\ UNCHANGED <<playlist, dirExists, videos, next_page_token, pc, files0,
                 dirExists0, prev, raised>>
  /\ UNCHANGED lost

\* get_transcript raises: caught, "Error fetching transcript" printed
FetchFail ==
  /\ InLoop
  /\ filename \notin DOMAIN files
  /\ checked' = Append(checked, filename)
  /\ calls' = Append(calls, cur.id)
  /\ output' = Append(output, [kind |-> "error", id |-> cur.id,
                               text |-> cur.title])
  /\ idx' = idx + 1
  /\ UNCHANGED <<playlist, dirExists, files, videos, next_page_token, pc,
                 opened, files0, dirExists0, prev, raised>>
  /\ UNCHANGED lost

\* file.write raises after open created the file: caught, the file stays
WriteFail ==
  /\ InLoop
  /\ filename \notin DOMAIN files
  /\ checked' = Append(checked, filename)
  /\ calls' = Append(calls, cur.id)
  /\ opened' = Append(opened, [id |-> cur.id, key |-> filename])
  /\ files' = [k \in DOMAIN files \cup {filename} |->
                 IF k = filename THEN "partial" ELSE files[k]]
  /\ output' = Append(output, [kind |-> "error", id |-> cur.id,
                               text |-> cur.title])
  /\ idx' = idx + 1
  /\ UNCHANGED <<playlist, dirExists, videos, next_page_token, pc, files0,
                 dirExists0, prev, raised>>
  /\ UNCHANGED lost

\* the process is terminated in the middle of the write loop
CrashInWrite ==
  /\ InLoop
  /\ filename \notin DOMAIN files
  /\ checked' = Append(checked, filename)
  /\ calls' = Append(calls, cur.id)
  /\ opened' = Append(opened, [id |-> cur.id, key |-> filename])
  /\ files' = [k \in DOMAIN files \cup {filename} |->
                 IF k = filename THEN "partial" ELSE files[k]]
  /\ pc' = "crashed"
  /\ UNCHANGED <<playlist, dirExists, videos, next_page_token, idx, output,
                 files0, dirExists0, prev, raised>>
  /\ UNCHANGED lost

\* the for loop is exhausted
LoopEnd ==
  /\ pc = "loop"
  /\ idx > Len(videos)
  /\ pc' = "done"
  /\ UNCHANGED <<playlist, dirExists, files, videos, next_page_token, idx,
                 calls, checked, opened, output, files0, dirExists0, prev,
                 raised>>
  /\ UNCHANGED lost

\* between runs the playlist gains a video, published no earlier than the
\* videos it has; what the last run showed is no longer about this playlist
AddVideo ==
  /\ Resting
  /\ Len(playlist) < MaxVideos
  /\ \E t \in Titles, d \in Dates \cup {LaterDate} :
       /\ \A i \in DOMAIN playlist : playlist[i].date <= d
       /\ playlist' = Append(playlist, [id |-> Len(playlist) + 1,
                                        title |-> t, date |-> d])
  /\ pc' = "idle"
  /\ videos' = <<>>
  /\ next_page_token' = 0
  /\ idx' = 0
  /\ calls' = <<>>
  /\ checked' = <<>>
  /\ opened' = <<>>
  /\ output' = <<>>
  /\ files0' = files
  /\ dirExists0' = dirExists
  /\ prev' = "none"
  /\ raised' = "none"
  /\ lost' = LostAfterRun
  /\ UNCHANGED <<dirExists, files>>

Next ==
  \/ StartRun
  \/ ListPage
  \/ ListFail
  \/ SortAndMakeDir
  \/ StopAtExisting
  \/ SaveTranscript
  \/ FetchFail
  \/ WriteFail
  \/ CrashInWrite
  \/ LoopEnd
  \/ AddVideo

Spec == Init /\ [][Next]_vars

\* ------------------------------------------------- every title, one video
\* the characters the enumerated titles are made of: a letter, a digit, a
\* space, a tab and a punctuation mark
Alphabet == {"a", "1", " ", "\t", ":"}
AllTitles == UNION { [1..n -> Alphabet] : n \in 0..MaxLen }

ExampleTitle ==
  <<"A", "n", "c", "i", "e", "n", "t", " ", "A", "l", "i", "e", "n", "s",
    ":", " ", "T", "h", "e", " ", "C", "r", "y", "s", "t", "a", "l", " ",
    "S", "k", "u", "l", "l", "s", " ", "(", "S", "6", ",", "E", "2", ")",
    "!">>
ExampleKey ==
  <<"A", "n", "c", "i", "e", "n", "t", " ", "A", "l", "i", "e", "n", "s",
    " ", "T", "h", "e", " ", "C", "r", "y", "s", "t", "a", "l", " ", "S",
    "k", "u", "l", "l", "s", " ", "S", "6", "E", "2">>

\* a playlist of one video, of any title, and no output directory yet
InitSanitize ==
  /\ \E t \in AllTitles \cup {ExampleTitle} :
       playlist = <<[id |-> 1, title |-> t, date |-> 1]>>
  /\ dirExists = FALSE
  /\ files = [k \in {} |-> "full"]
  /\ pc = "idle"
  /\ videos = <<>>
  /\ next_page_token = 0
  /\ idx = 0
  /\ calls = <<>>
  /\ checked = <<>>
  /\ opened = <<>>
  /\ output = <<>>
  /\ files0 = files
  /\ dirExists0 = dirExists
  /\ prev = "none"
  /\ raised = "none"
  /\ lost = {}

NextSanitize ==
  \/ StartRun
  \/ ListPage
  \/ ListFail
  \/ SortAndMakeDir
  \/ StopAtExisting
  \/ SaveTranscript
  \/ FetchFail
  \/ WriteFail
  \/ CrashInWrite
  \/ LoopEnd

SpecSanitize == InitSanitize /\ [][NextSanitize]_vars

\* ------------------------------------------------------------ the claims
N == Len(playlist)
key(v) == safe_title(v.title)
CallSet == { calls[i] : i \in DOMAIN calls }
OpenedIds == { opened[i].id : i \in DOMAIN opened }
OutputIds == { output[i].id : i \in DOMAIN output }
PosOf(id) == CHOOSE i \in DOMAIN videos : videos[i].id = id

\* the videos Old are strictly older than the others, they have their files
\* when the run starts and the others have none
OldestExist(Old) ==
  /\ \A o \in Old, n \in (1..N) \ Old : playlist[o].date < playlist[n].date
  /\ \A o \in Old : key(playlist[o]) \in DOMAIN files0
  /\ \A n \in (1..N) \ Old : key(playlist[n]) \notin DOMAIN files0

\* C1: a run with no per-video failure, started with the files of the oldest
\* K videos in place and those of the newest N-K missing, writes exactly the
\* N-K missing files and requests and writes none of the K
C1_IncrementalSync ==
  (pc = "done" /\ ErrorLines = <<>>) =>
    \A Old \in SUBSET (1..N) :
      OldestExist(Old) =>
        /\ OpenedIds = (1..N) \ Old
        /\ Len(opened) = N - Cardinality(Old)
        /\ CallSet \cap Old = {}

\* C2: a run with no per-video failure, started with no file in the
\* directory, writes exactly N files, one per video, each named by the
\* sanitized title of its video
C2_ExactlyNFiles ==
  (pc = "done" /\ DOMAIN files0 = {} /\ ErrorLines = <<>>) =>
    /\ Len(opened) = N
    /\ \A i \in 1..N :
         /\ \E j \in DOMAIN opened :
              opened[j] = [id |-> i, key |-> key(playlist[i])]
         /\ key(playlist[i]) \in DOMAIN files

C4_FailureIsolation ==
  \A i \in 2..(Len(videos) - 1) :
    ( /\ pc \in {"loop", "done"}
      /\ idx > i
      /\ DOMAIN files0 = {}
      /\ ErrorLines # <<>>
      /\ \A l \in DOMAIN ErrorLines : ErrorLines[l].id = videos[i].id
      /\ videos[i].id \notin OpenedIds ) =>
        /\ Len(ErrorLines) = 1
        /\ \A j \in 1..(i - 1) : videos[j].id \in OpenedIds
        /\ pc = "done" =>
             \A j \in 1..Len(videos) :
               j # i => ( /\ videos[j].id \in OpenedIds
                          /\ key(videos[j]) \in DOMAIN files )

\* C5: a listing request that fails, on any page, ends the run with the
\* error raised to the caller; no existence check, no transcript request
\* and no write happens in that run
C5_ListingFailureFatal ==
  raised = "listing" =>
    /\ pc = "failed"
    /\ checked = <<>>
    /\ calls = <<>>
    /\ opened = <<>>
    /\ output = <<>>
    /\ files = files0

C5_Witness ==
  /\ raised = "listing"
  /\ videos # <<>>
  /\ Len(videos) < N

\* C6: no existence check and no transcript request happens while pages are
\* still being listed; when the first one happens the last page has been
\* received, every video of the playlist is in the list and the list is
\* sorted newest first
C6_PaginationComplete ==
  /\ pc \in {"list", "sort", "failed"} =>
       (checked = <<>> /\ calls = <<>> /\ opened = <<>>)
  /\ (pc = "loop" \/ checked # <<>> \/ calls # <<>> \/ opened # <<>>) =>
       /\ next_page_token = 0
       /\ Len(videos) = N
       /\ \A i \in 1..N : \E j \in DOMAIN videos : videos[j] = playlist[i]
       /\ \A j \in 1..(Len(videos) - 1) : videos[j].date >= videos[j + 1].date

C6_Witness ==
  /\ pc = "loop"
  /\ N > maxResults
  /\ checked # <<>>
  /\ calls # <<>>

\* the file of the j-th video existed when the loop checked it
ExistedAt(j) ==
  \/ checked[j] \in DOMAIN files0
  \/ \E e \in DOMAIN opened :
       opened[e].key = checked[j] /\ PosOf(opened[e].id) < j

\* C7: the existence check that finds the file is the last step of the run:
\* the run is done with no error, and neither that video nor any video
\* after it is requested, written or reported
C7_EarlyStop ==
  \A j \in DOMAIN checked :
    ExistedAt(j) =>
      /\ j = Len(checked)
      /\ idx = j
      /\ pc = "done"
      /\ raised = "none"
      /\ \A m \in j..Len(videos) :
           /\ videos[m].id \notin CallSet
           /\ videos[m].id \notin OpenedIds
           /\ videos[m].id \notin OutputIds

C7_Witness ==
  /\ pc = "done"
  /\ idx < Len(videos)
  /\ key(videos[idx]) \in DOMAIN files
  /\ \E m \in (idx + 1)..Len(videos) : key(videos[m]) \notin DOMAIN files

\* C8: no step changes or removes a file that exists, and a file is opened
\* for writing only while it does not exist
C8_AppendOnly ==
  [][ /\ \A k \in DOMAIN files : k \in DOMAIN files' /\ files'[k] = files[k]
      /\ Len(opened') = Len(opened) + 1 =>
           opened'[Len(opened')].key \notin DOMAIN files ]_vars

C8_Witness ==
  /\ pc = "done"
  /\ prev # "none"
  /\ DOMAIN files0 # {}
  /\ opened # <<>>

\* the title's alphanumeric and whitespace characters, in their order
Kept(t) == SelectSeq(t, LAMBDA c : c \in Letters \cup Digits \cup Whitespace)

\* k is s without its trailing whitespace
IsTrimOf(k, s) ==
  /\ Len(k) <= Len(s)
  /\ k = SubSeq(s, 1, Len(k))
  /\ \A i \in (Len(k) + 1)..Len(s) : s[i] \in Whitespace
  /\ k # <<>> => k[Len(k)] \notin Whitespace

\* C9: the key of every file opened is the title's alphanumeric and
\* whitespace characters in their order, less the trailing whitespace; it
\* has only letters, digits and whitespace; the example title gives the
\* example key
C9_Sanitization ==
  \A e \in DOMAIN opened :
    LET t == playlist[opened[e].id].title
        k == opened[e].key IN
      /\ IsTrimOf(k, Kept(t))
      /\ \A i \in DOMAIN k : k[i] \in Letters \cup Digits \cup Whitespace
      /\ k \in DOMAIN files
      /\ t = ExampleTitle => k = ExampleKey

C9_Witness ==
  /\ pc = "done"
  /\ playlist[1].title = ExampleTitle
  /\ ExampleKey \in DOMAIN files
  /\ opened # <<>>

\* C10: a run whose listing gives no video writes no file, prints no line,
\* raises no error and leaves the output directory in place
C10_EmptyPlaylist ==
  (pc \in {"loop", "done"} /\ videos = <<>>) =>
    /\ opened = <<>>
    /\ calls = <<>>
    /\ files = files0
    /\ output = <<>>
    /\ raised = "none"
    /\ dirExists

C10_Witness ==
  /\ pc = "done"
  /\ playlist = <<>>
  /\ ~dirExists0
  /\ dirExists
  /\ DOMAIN files = {}

\* C11: the videos are visited newest first whatever the order of the
\* listing, and videos of one date in the order of the listing: the local
\* list holds the playlist in that order, the existence checks follow it
\* from its head, and requests, writes and console lines follow it too
VisitedBefore(a, b) ==
  \/ playlist[a].date > playlist[b].date
  \/ playlist[a].date = playlist[b].date /\ a < b

C11_ProcessingOrder ==
  (pc \in {"loop", "done", "crashed"}) =>
    /\ Len(videos) = N
    /\ \A i \in 1..N : videos[i] \in { playlist[p] : p \in 1..N }
    /\ \A i, j \in 1..N : i < j => VisitedBefore(videos[i].id, videos[j].id)
    /\ Len(checked) <= N
    /\ \A i \in DOMAIN checked : checked[i] = key(videos[i])
    /\ \A a, b \in DOMAIN calls : a < b => VisitedBefore(calls[a], calls[b])
    /\ \A a, b \in DOMAIN opened :
         a < b => VisitedBefore(opened[a].id, opened[b].id)
    /\ \A a, b \in DOMAIN output :
         a < b => VisitedBefore(output[a].id, output[b].id)

C11_Witness ==
  /\ pc = "done"
  /\ Len(calls) >= 3
  /\ \E a, b \in DOMAIN calls :
       a < b /\ playlist[calls[a]].date = playlist[calls[b]].date
  /\ \E a, b \in DOMAIN calls : a < b /\ calls[a] > calls[b]

\* the keys of the files that were truncated when the run started
Truncated0 == { k \in DOMAIN files0 : files0[k] = "partial" }

\* C12: a write that fails or is cut short leaves its truncated file in the
\* directory; a file that is truncated when a run starts is still there and
\* still truncated, and the run stops at the first video of that key at the
\* latest: neither that video nor any video after it is requested or written
C12_TruncatedFileStays ==
  /\ \A e \in DOMAIN opened :
       (opened[e].id \in { ErrorLines[l].id : l \in DOMAIN ErrorLines }
          \/ (pc = "crashed" /\ e = Len(opened))) =>
         (opened[e].key \in DOMAIN files /\ files[opened[e].key] = "partial")
  /\ \A k \in Truncated0 :
       /\ k \in DOMAIN files
       /\ files[k] = "partial"
       /\ \A e \in DOMAIN opened : opened[e].key # k
       /\ pc \in {"loop", "done", "crashed"} =>
            \A j \in DOMAIN videos :
              key(videos[j]) = k =>
                /\ idx <= j
                /\ (pc = "crashed" => idx < j)
                /\ (pc = "done" => Len(checked) = idx)
                /\ \A m \in j..Len(videos) :
                     /\ videos[m].id \notin CallSet
                     /\ videos[m].id \notin OpenedIds

C12_Witness ==
  /\ pc = "done"
  /\ prev \in {"errors", "aborted"}
  /\ \E j \in DOMAIN videos :
       /\ key(videos[j]) \in Truncated0
       /\ idx = j
       /\ j < Len(videos)
       /\ \E m \in (j + 1)..Len(videos) : key(videos[m]) \notin DOMAIN files

\* the j-th video of the list has the key of a video before it
Collides(j) == \E i \in 1..(j - 1) : key(videos[i]) = key(videos[j])
FirstCollision == CHOOSE j \in DOMAIN videos :
                    Collides(j) /\ \A m \in 1..(j - 1) : ~Collides(m)

\* C14: a run started with no file and with no failure, over a list where
\* two videos have the same key, stops at the existence check of the second
\* of them: the videos before it are written once each, the first one's
\* file is complete and was opened once, and that second video and every
\* video after it are neither requested nor written
C14_TitleCollision ==
  ( /\ pc = "done"
    /\ DOMAIN files0 = {}
    /\ ErrorLines = <<>>
    /\ \E j \in DOMAIN videos : Collides(j) ) =>
      LET j == FirstCollision IN
        /\ idx = j
        /\ Len(checked) = j
        /\ checked[j] = key(videos[j])
        /\ opened = [m \in 1..(j - 1) |->
                       [id |-> videos[m].id, key |-> key(videos[m])]]
        /\ DOMAIN files = { key(videos[m]) : m \in 1..(j - 1) }
        /\ \A k \in DOMAIN files : files[k] = "full"
        /\ \A m \in j..Len(videos) :
             /\ videos[m].id \notin CallSet
             /\ videos[m].id \notin OpenedIds

C14_Witness ==
  /\ pc = "done"
  /\ DOMAIN files0 = {}
  /\ ErrorLines = <<>>
  /\ Len(videos) = 3
  /\ idx = 2
  /\ videos[1].title # videos[2].title
  /\ key(videos[1]) = key(videos[2])
  /\ key(videos[3]) \notin DOMAIN files
  /\ opened = <<[id |-> videos[1].id, key |-> key(videos[1])]>>

\* C13: a video whose transcript failed in an earlier run, with no file
\* written for it while the file of a newer video was in the directory, is
\* not reached by any later run, whatever videos the playlist has gained:
\* the run ends before its position, and it is neither requested, nor
\* written, nor reported again
C13_FailedNeverRetried ==
  \A v \in lost :
    /\ v \notin CallSet
    /\ v \notin OpenedIds
    /\ v \notin OutputIds
    /\ pc \in {"loop", "done", "crashed"} =>
         /\ idx < PosOf(v)
         /\ Len(checked) < PosOf(v)
         /\ \E m \in 1..(PosOf(v) - 1) :
              /\ videos[m].date > videos[PosOf(v)].date
              /\ key(videos[m]) \in DOMAIN files

C13_Witness ==
  /\ pc = "done"
  /\ checked # <<>>
  /\ \E v \in lost :
       /\ key(playlist[v]) \notin DOMAIN files
       /\ Len(checked) < PosOf(v)
====
